---- MODULE Spec2Model ----
(***************************************************************************)
(* Shopper-event ETL: the event generator (data_generator.py) and the      *)
(* PySpark pipeline extract -> transform -> validate -> load               *)
(* (etl_pipeline.py).                                                      *)
(*                                                                         *)
(* A DataFrame is a sequence of partitions, each a sequence of rows; the   *)
(* input order of a batch is the concatenation of its partitions.  String  *)
(* columns hold NULL for SQL NULL, numeric/date columns hold NullNum.      *)
(* DoubleType values are binary floating-point numbers with a mantissa of  *)
(* MantissaBits bits (round to nearest, ties to even), over integer units. *)
(***************************************************************************)
EXTENDS Integers, Sequences, FiniteSets, Bags, TLC

VARIABLES
    s3,                \* objects under s3_input_path: a sequence of files of JSON records
    pc,                \* position of run_etl
    raw_df,            \* run_etl local: the extracted DataFrame
    transformed_data,  \* run_etl local: dict of the three result DataFrames
    warehouse,         \* Redshift schema analytics: table name -> bag of rows
    runsLeft,          \* invocations of run_etl still to come
    events,            \* generate_batch_events local: the list of events
    count,             \* generate_batch_events argument
    sample_events      \* content of sample_events.json

vars == <<s3, pc, raw_df, transformed_data, warehouse, runsLeft, events, count, sample_events>>

\* ------------------------------------------------------------------ bounds
MaxBatch == 2       \* records under the S3 path (pipeline specification)
MaxBatchAgg == 3    \* records under the S3 path (aggregation specification)
MaxFiles == 2       \* files (input partitions) under the S3 path
MaxRuns == 2        \* invocations of run_etl
MaxCount == 2       \* count given to generate_batch_events
MantissaBits == 3   \* width of the floating-point mantissa

\* ------------------------------------------------------------------ values
NULL == "<null>"
NullNum == -1

event_types == {"page_view", "add_to_cart", "purchase", "search", "ad_click"}
device_types == {"mobile", "desktop", "tablet"}
TableNames == {"events", "session_metrics", "product_metrics"}

RECURSIVE BitLen(_)
BitLen(n) == IF n = 0 THEN 0 ELSE 1 + BitLen(n \div 2)

\* The double nearest to the real number n (ties to even).
FRound(n) ==
    IF BitLen(n) <= MantissaBits THEN n
    ELSE LET ulp == 2 ^ (BitLen(n) - MantissaBits)
             q == n \div ulp
             r == n % ulp
         IN  IF 2 * r > ulp \/ (2 * r = ulp /\ q % 2 = 1)
             THEN (q + 1) * ulp ELSE q * ulp

\* Double addition.
FAdd(a, b) == FRound(a + b)

\* One step of Spark's sum(): NULL inputs are skipped, the buffer starts NULL.
SumAdd(acc, x) ==
    IF x = NullNum THEN acc
    ELSE IF acc = NullNum THEN x
    ELSE FAdd(acc, x)

\* A double quotient, kept as the pair of its operands.
Ratio(n, d) == [num |-> n, den |-> d]

\* ------------------------------------------------------------------ sequences
RECURSIVE Flatten(_)
Flatten(parts) ==
    IF parts = <<>> THEN <<>> ELSE Head(parts) \o Flatten(Tail(parts))

Range(seq) == {seq[i] : i \in DOMAIN seq}

SeqsUpTo(S, n) == UNION {[1..k -> S] : k \in 0..n}

Perms(n) == {f \in [1..n -> 1..n] : \A i, j \in 1..n : f[i] = f[j] => i = j}

RECURSIVE BagOfSeq(_)
BagOfSeq(seq) ==
    IF seq = <<>> THEN EmptyBag
    ELSE SetToBag({Head(seq)}) (+) BagOfSeq(Tail(seq))

\* ------------------------------------------------------------------ extract
\* Timestamp strings the JSON reader parses, as hours since the epoch.
ParsedTimestamps ==
    ("2024-06-01T10:00:00Z" :> 477010) @@ ("2024-06-02T01:00:00Z" :> 477025)

Parseable(s) == s \in DOMAIN ParsedTimestamps

AllNullRow ==
    [event_id |-> NULL, user_id |-> NULL, session_id |-> NULL, timestamp |-> NullNum,
     event_type |-> NULL, product_id |-> NULL, category |-> NULL, price |-> NullNum,
     device_type |-> NULL, ad_campaign_id |-> NULL, revenue |-> NullNum]

\* A JSON number read into a DoubleType column.
ReadDouble(x) == IF x = NullNum THEN NullNum ELSE FRound(x)

\* spark.read.json with a schema, default mode PERMISSIVE: a record with a field
\* that does not parse raises nothing; the row keeps the fields that parsed
\* (partial results) or becomes all NULL, depending on the Spark build.
ReadJsonRecord(j, partial) ==
    LET row == [j EXCEPT !.price = ReadDouble(j.price),
                         !.revenue = ReadDouble(j.revenue)]
    IN  IF j.timestamp = NULL THEN [row EXCEPT !.timestamp = NullNum]
        ELSE IF Parseable(j.timestamp)
             THEN [row EXCEPT !.timestamp = ParsedTimestamps[j.timestamp]]
        ELSE IF partial THEN [row EXCEPT !.timestamp = NullNum]
        ELSE AllNullRow

extract_from_s3(files, partial) ==
    [p \in DOMAIN files |->
        [i \in DOMAIN files[p] |-> ReadJsonRecord(files[p][i], partial)]]

\* ------------------------------------------------------------------ transform
to_date(ts) == IF ts = NullNum THEN NullNum ELSE ts \div 24

hour(ts) == IF ts = NullNum THEN NullNum ELSE ts % 24

\* when(col("event_type") == "purchase", 1).otherwise(0)
is_purchase(r) == IF r.event_type # NULL /\ r.event_type = "purchase" THEN 1 ELSE 0

\* Mutant of is_ad_driven: the empty string counts as absent too.
is_ad_driven_nonempty(r) ==
    IF r.ad_campaign_id # NULL /\ r.ad_campaign_id # "" THEN 1 ELSE 0

\* when(col("ad_campaign_id").isNotNull(), 1).otherwise(0)
is_ad_driven(r) == IF r.ad_campaign_id # NULL THEN 1 ELSE 0

\* The four withColumn calls on one row.
Enrich(r) ==
    [event_id |-> r.event_id, user_id |-> r.user_id, session_id |-> r.session_id,
     timestamp |-> r.timestamp, event_type |-> r.event_type,
     product_id |-> r.product_id, category |-> r.category, price |-> r.price,
     device_type |-> r.device_type, ad_campaign_id |-> r.ad_campaign_id,
     revenue |-> r.revenue,
     date |-> to_date(r.timestamp), hour |-> hour(r.timestamp),
     is_purchase |-> is_purchase(r), is_ad_driven |-> is_ad_driven(r)]

EnrichAll(parts) ==
    [p \in DOMAIN parts |-> [i \in DOMAIN parts[p] |-> Enrich(parts[p][i])]]

\* groupBy: a NULL in a key column is a key value like any other.
SessionKey(r) == <<r.user_id, r.session_id, r.date>>

ProductKey(r) == <<r.product_id, r.category, r.date>>

\* Aggregation buffer of the session metrics and its three operations:
\* the empty buffer, the update by one row, the merge of two buffers.
SessionBuf0 ==
    [total_events |-> 0, purchases |-> 0, session_revenue |-> NullNum,
     products |-> {}, device_type |-> NULL, valueSet |-> FALSE]

SessionUpdate(b, r) ==
    [total_events |-> b.total_events + 1,
     purchases |-> b.purchases + r.is_purchase,
     session_revenue |-> SumAdd(b.session_revenue, r.revenue),
     products |-> b.products \cup (IF r.product_id = NULL THEN {} ELSE {r.product_id}),
     device_type |-> IF b.valueSet THEN b.device_type ELSE r.device_type,
     valueSet |-> TRUE]

\* Mutant of SessionMerge: the first buffer delivered is kept, the other dropped.
SessionMergeKeepFirst(a, b) == IF a.valueSet THEN a ELSE b

SessionMerge(a, b) ==
    [total_events |-> a.total_events + b.total_events,
     purchases |-> a.purchases + b.purchases,
     session_revenue |-> SumAdd(a.session_revenue, b.session_revenue),
     products |-> a.products \cup b.products,
     device_type |-> IF a.valueSet THEN a.device_type ELSE b.device_type,
     valueSet |-> a.valueSet \/ b.valueSet]

ProductBuf0 ==
    [total_views |-> 0, total_purchases |-> 0, total_revenue |-> NullNum,
     price_sum |-> NullNum, price_count |-> 0]

ProductUpdate(b, r) ==
    [total_views |-> b.total_views + 1,
     total_purchases |-> b.total_purchases + r.is_purchase,
     total_revenue |-> SumAdd(b.total_revenue, r.revenue),
     price_sum |-> SumAdd(b.price_sum, r.price),
     price_count |-> b.price_count + (IF r.price = NullNum THEN 0 ELSE 1)]

ProductMerge(a, b) ==
    [total_views |-> a.total_views + b.total_views,
     total_purchases |-> a.total_purchases + b.total_purchases,
     total_revenue |-> SumAdd(a.total_revenue, b.total_revenue),
     price_sum |-> SumAdd(a.price_sum, b.price_sum),
     price_count |-> a.price_count + b.price_count]

RECURSIVE SessionFold(_, _)
SessionFold(b, rows) ==
    IF rows = <<>> THEN b
    ELSE SessionFold(SessionUpdate(b, Head(rows)), Tail(rows))

RECURSIVE SessionMergeAll(_, _)
SessionMergeAll(b, bufs) ==
    IF bufs = <<>> THEN b
    ELSE SessionMergeAll(SessionMerge(b, Head(bufs)), Tail(bufs))

RECURSIVE ProductFold(_, _)
ProductFold(b, rows) ==
    IF rows = <<>> THEN b
    ELSE ProductFold(ProductUpdate(b, Head(rows)), Tail(rows))

RECURSIVE ProductMergeAll(_, _)
ProductMergeAll(b, bufs) ==
    IF bufs = <<>> THEN b
    ELSE ProductMergeAll(ProductMerge(b, Head(bufs)), Tail(bufs))

\* The aggregate of one key: each partition folds its rows of the key in row
\* order into a partial buffer, and the partial buffers are merged in the order
\* the shuffle delivers them (order, a permutation of the partitions).  A
\* partition without rows of the key contributes the empty buffer.
SessionAggregate(parts, order, k) ==
    SessionMergeAll(SessionBuf0,
        [i \in DOMAIN order |->
            SessionFold(SessionBuf0,
                        SelectSeq(parts[order[i]], LAMBDA r : SessionKey(r) = k))])

ProductAggregate(parts, order, k) ==
    ProductMergeAll(ProductBuf0,
        [i \in DOMAIN order |->
            ProductFold(ProductBuf0,
                        SelectSeq(parts[order[i]], LAMBDA r : ProductKey(r) = k))])

SessionRow(k, b) ==
    [user_id |-> k[1], session_id |-> k[2], date |-> k[3],
     total_events |-> b.total_events, purchases |-> b.purchases,
     session_revenue |-> b.session_revenue,
     unique_products_viewed |-> Cardinality(b.products),
     device_type |-> b.device_type]

\* Mutant of conversion_rate: the quotient is inverted.
conversion_rate_inverted(total_purchases, total_views) ==
    IF total_views > 0 THEN Ratio(total_views, total_purchases) ELSE Ratio(0, 1)

\* when(col("total_views") > 0, total_purchases / total_views).otherwise(0)
conversion_rate(total_purchases, total_views) ==
    IF total_views > 0 THEN Ratio(total_purchases, total_views) ELSE Ratio(0, 1)

ProductRow(k, b) ==
    [product_id |-> k[1], category |-> k[2], date |-> k[3],
     total_views |-> b.total_views, total_purchases |-> b.total_purchases,
     total_revenue |-> b.total_revenue,
     avg_price |-> Ratio(b.price_sum, b.price_count),
     conversion_rate |-> conversion_rate(b.total_purchases, b.total_views)]

\* Mutant of SessionGroups: keys with a NULL column are dropped.
SessionGroupsDropNull(parts) ==
    {k \in {SessionKey(r) : r \in Range(Flatten(parts))} :
        k[1] # NULL /\ k[2] # NULL /\ k[3] # NullNum}

SessionGroups(parts) == {SessionKey(r) : r \in Range(Flatten(parts))}

ProductGroups(parts) == {ProductKey(r) : r \in Range(Flatten(parts))}

session_metrics(parts, order) ==
    {SessionRow(k, SessionAggregate(parts, order, k)) : k \in SessionGroups(parts)}

product_metrics(parts, order) ==
    {ProductRow(k, ProductAggregate(parts, order, k)) : k \in ProductGroups(parts)}

\* transform_events; orderS and orderP are the delivery orders of the two shuffles.
transform_events(raw, orderS, orderP) ==
    LET transformed_df == EnrichAll(raw)
    IN  [events |-> transformed_df,
         session_metrics |-> session_metrics(transformed_df, orderS),
         product_metrics |-> product_metrics(transformed_df, orderP)]

\* ------------------------------------------------------------------ validate
\* Mutant of validate_data_quality: a null user_id is fatal too.
validate_data_quality_strict(df) ==
    IF Len(Flatten(df)) = 0
       \/ Len(SelectSeq(Flatten(df), LAMBDA r : r.user_id = NULL)) > 0
    THEN "ValueError" ELSE "passed"

\* validate_data_quality: "ValueError" when it raises, "passed" otherwise.
validate_data_quality(df) ==
    LET total_records == Len(Flatten(df))
        null_user_ids == Len(SelectSeq(Flatten(df), LAMBDA r : r.user_id = NULL))
    IN  IF total_records = 0 THEN "ValueError" ELSE "passed"

\* ------------------------------------------------------------------ load
\* The rows of one of the three DataFrames, as a bag.
RowsOf(table_name, dataframes) ==
    IF table_name = "events" THEN BagOfSeq(Flatten(dataframes[table_name]))
    ELSE SetToBag(dataframes[table_name])

\* Mutant of WriteAppend: mode("overwrite").
WriteOverwrite(table, rows) == rows

\* One df.write ... .mode("append").save() into analytics.<table_name>.
WriteAppend(table, rows) == table (+) rows

\* load_to_redshift: the loop over dataframes.items().
load_to_redshift(dataframes, wh) ==
    [t \in DOMAIN wh |->
        IF t \in DOMAIN dataframes THEN WriteAppend(wh[t], RowsOf(t, dataframes))
        ELSE wh[t]]

\* ------------------------------------------------------------------ generator
SampleAmounts == {0, 250}
SampleCampaigns == {NULL, "campaign_1"}

\* generate_shopper_event: event_type is the first random.choice(event_types),
\* revenue_draw the second one (line 46), amount the random.uniform(0, 500).
generate_shopper_event(event_type, device_type, ad_campaign_id, revenue_draw, amount) ==
    [event_id |-> "e1", user_id |-> "user_1000", session_id |-> "s1",
     timestamp |-> "2024-06-01T10:00:00Z", event_type |-> event_type,
     product_id |-> "prod_1", category |-> "Electronics", price |-> 10,
     device_type |-> device_type, ad_campaign_id |-> ad_campaign_id,
     revenue |-> IF revenue_draw = "purchase" THEN amount ELSE 0]

\* ------------------------------------------------------------------ inputs
BaseRecord ==
    [event_id |-> "e1", user_id |-> "u1", session_id |-> "s1",
     timestamp |-> "2024-06-01T10:00:00Z", event_type |-> "purchase",
     product_id |-> "p1", category |-> "Electronics", price |-> 5,
     device_type |-> "mobile", ad_campaign_id |-> NULL, revenue |-> 1]

\* Records of the pipeline specification.
PipelineRecords ==
    {BaseRecord,
     [BaseRecord EXCEPT !.user_id = NULL],
     [BaseRecord EXCEPT !.timestamp = "not-a-date"],
     [BaseRecord EXCEPT !.event_type = "page_view", !.revenue = 0],
     [BaseRecord EXCEPT !.ad_campaign_id = ""],
     [BaseRecord EXCEPT !.product_id = "p2", !.ad_campaign_id = "campaign_1"]}

\* Records of the aggregation specification.
AggRecords ==
    {BaseRecord,
     [BaseRecord EXCEPT !.user_id = NULL],
     [BaseRecord EXCEPT !.session_id = NULL, !.timestamp = NULL],
     [BaseRecord EXCEPT !.device_type = "desktop", !.product_id = "p2", !.revenue = 2],
     [BaseRecord EXCEPT !.revenue = 7]}

\* The ways to cut a batch of len records into 1..MaxFiles consecutive files.
\* Every file holds a record, but for the one file of the empty batch: a file
\* without records adds no row to any partition.
Cuts(len) ==
    UNION {{c \in [1..(k - 1) -> 1..(len - 1)] :
               \A i, j \in 1..(k - 1) : i < j => c[i] < c[j]}
           : k \in 1..MaxFiles}

SplitAt(b, c) ==
    [i \in 1..(Len(c) + 1) |->
        SubSeq(b, (IF i = 1 THEN 0 ELSE c[i - 1]) + 1,
                  IF i = Len(c) + 1 THEN Len(b) ELSE c[i])]

Files(records, n) ==
    UNION {{SplitAt(b, c) : c \in Cuts(Len(b))} : b \in SeqsUpTo(records, n)}

\* ------------------------------------------------------------------ state machine
NoData == [events |-> <<>>, session_metrics |-> {}, product_metrics |-> {}]

InitEtl ==
    /\ pc = "idle"
    /\ raw_df = <<>>
    /\ transformed_data = NoData
    /\ warehouse = [t \in TableNames |-> EmptyBag]

InitGen(c) ==
    /\ events = <<>>
    /\ count = c
    /\ sample_events = [written |-> FALSE, content |-> <<>>]

Init ==
    /\ s3 \in Files(PipelineRecords, MaxBatch)
    /\ runsLeft = MaxRuns
    /\ InitEtl
    /\ InitGen(0)

InitAgg ==
    /\ s3 \in Files(AggRecords, MaxBatchAgg)
    /\ runsLeft = 1
    /\ InitEtl
    /\ InitGen(0)

InitGenerator ==
    /\ s3 = <<>>
    /\ runsLeft = 0
    /\ InitEtl
    /\ \E c \in 0..MaxCount : InitGen(c)

genVars == <<events, count, sample_events>>
etlVars == <<s3, pc, raw_df, transformed_data, warehouse, runsLeft>>

\* run_etl is entered (__main__, lines 124-135).
RunEtl ==
    /\ pc \in {"idle", "done", "failed"}
    /\ runsLeft > 0
    /\ runsLeft' = runsLeft - 1
    /\ pc' = "extract"
    /\ raw_df' = <<>>
    /\ transformed_data' = NoData
    /\ UNCHANGED <<s3, warehouse, genVars>>

\* run_etl line 96.
Extract ==
    /\ pc = "extract"
    /\ \E partial \in BOOLEAN : raw_df' = extract_from_s3(s3, partial)
    /\ pc' = "transform"
    /\ UNCHANGED <<s3, transformed_data, warehouse, runsLeft, genVars>>

\* run_etl line 100.
Transform ==
    /\ pc = "transform"
    /\ \E orderS, orderP \in Perms(Len(raw_df)) :
          transformed_data' = transform_events(raw_df, orderS, orderP)
    /\ pc' = "validate"
    /\ UNCHANGED <<s3, raw_df, warehouse, runsLeft, genVars>>

\* run_etl line 103: the ValueError leaves run_etl.
Validate ==
    /\ pc = "validate"
    /\ pc' = IF validate_data_quality(transformed_data.events) = "ValueError"
             THEN "failed" ELSE "load"
    /\ UNCHANGED <<s3, raw_df, transformed_data, warehouse, runsLeft, genVars>>

\* Mutant of Load: the load is not held back until the quality check is done.
LoadUnchecked ==
    /\ pc \in {"validate", "load"}
    /\ warehouse' = load_to_redshift(transformed_data, warehouse)
    /\ pc' = "done"
    /\ UNCHANGED <<s3, raw_df, transformed_data, runsLeft, genVars>>

\* run_etl line 107.
Load ==
    /\ pc = "load"
    /\ warehouse' = load_to_redshift(transformed_data, warehouse)
    /\ pc' = "done"
    /\ UNCHANGED <<s3, raw_df, transformed_data, runsLeft, genVars>>

\* One iteration of the loop of generate_batch_events.
GenerateEvent ==
    /\ Len(events) < count
    /\ \E et \in event_types, dev \in device_types, ad \in SampleCampaigns,
          draw \in event_types, amount \in SampleAmounts :
          events' = Append(events, generate_shopper_event(et, dev, ad, draw, amount))
    /\ UNCHANGED <<count, sample_events, etlVars>>

\* generate_batch_events after the loop: json.dump to sample_events.json.
SaveBatch ==
    /\ Len(events) = count
    /\ ~sample_events.written
    /\ sample_events' = [written |-> TRUE, content |-> events]
    /\ UNCHANGED <<events, count, etlVars>>

Next == RunEtl \/ Extract \/ Transform \/ Validate \/ Load

NextGen == GenerateEvent \/ SaveBatch

Spec == Init /\ [][Next]_vars

SpecAgg == InitAgg /\ [][Next]_vars

SpecGen == InitGenerator /\ [][NextGen]_vars

\* ------------------------------------------------------------------ properties
\* transformed_data holds the result of transform_events on the current batch.
Transformed == pc \in {"validate", "load", "done", "failed"}

InputRows == Flatten(transformed_data.events)

RECURSIVE SumTotalEvents(_)
SumTotalEvents(ms) ==
    IF ms = {} THEN 0
    ELSE LET m == CHOOSE x \in ms : TRUE
         IN  m.total_events + SumTotalEvents(ms \ {m})

\* C1: validate_data_quality raises exactly when the batch has zero records;
\* a non-empty batch passes whatever number of its records has a null user_id.
C1_RaisesIffEmpty ==
    /\ pc = "failed" => Len(InputRows) = 0
    /\ pc \in {"load", "done"} => Len(InputRows) > 0

C1_Witness ==
    /\ pc = "load"
    /\ Len(InputRows) >= 2
    /\ \A i \in DOMAIN InputRows : InputRows[i].user_id = NULL

\* C2: a batch with a record whose timestamp does not parse produces no
\* enriched events and no session or product metrics, and writes nothing.
C2_MalformedTimestampRejectsBatch ==
    (\E i \in DOMAIN Flatten(s3) :
        LET ts == Flatten(s3)[i].timestamp IN ts # NULL /\ ~Parseable(ts))
    => /\ transformed_data = NoData
       /\ \A t \in TableNames : warehouse[t] = EmptyBag

\* C3: the session metrics partition the batch: the total_events add up to the
\* number of rows, and there is exactly one metric per distinct
\* (user_id, session_id, date), NULL columns included.
C3_SessionsPartitionBatch ==
    Transformed =>
        LET ms == transformed_data.session_metrics
            keys == {<<InputRows[i].user_id, InputRows[i].session_id, InputRows[i].date>>
                     : i \in DOMAIN InputRows}
        IN  /\ SumTotalEvents(ms) = Len(InputRows)
            /\ {<<m.user_id, m.session_id, m.date>> : m \in ms} = keys
            /\ Cardinality(ms) = Cardinality(keys)

C3_Witness ==
    /\ pc = "validate"
    /\ \E i \in DOMAIN InputRows : InputRows[i].user_id = NULL
    /\ \E i \in DOMAIN InputRows : InputRows[i].date = NullNum
    /\ Len(InputRows) = 3
    /\ Cardinality(transformed_data.session_metrics) = 2

\* C4: every product metric has 0 <= total_purchases <= total_views and a
\* conversion_rate in [0, 1] with a non-zero divisor, equal to
\* total_purchases / total_views when total_views > 0 and to 0 otherwise.
C4_ConversionRateInUnitInterval ==
    Transformed =>
        \A m \in transformed_data.product_metrics :
            LET r == m.conversion_rate
            IN  /\ r.den > 0
                /\ 0 <= r.num /\ r.num <= r.den
                /\ 0 <= m.total_purchases /\ m.total_purchases <= m.total_views
                /\ m.total_views > 0 => r.num * m.total_views = m.total_purchases * r.den
                /\ m.total_views = 0 => r.num = 0

C4_Witness ==
    /\ pc = "validate"
    /\ \E m \in transformed_data.product_metrics :
          m.total_views = 2 /\ m.total_purchases = 1 /\ m.conversion_rate = Ratio(1, 2)

\* C5: every generated event has revenue > 0 only if its event_type is purchase.
C5_RevenueOnlyOnPurchase ==
    \A i \in DOMAIN events :
        events[i].revenue > 0 => events[i].event_type = "purchase"

\* C6 as claimed: is_ad_driven is set exactly when ad_campaign_id is neither
\* NULL nor the empty string.
C6_AdDrivenIffPresent ==
    Transformed =>
        \A p \in DOMAIN raw_df : \A i \in DOMAIN raw_df[p] :
            transformed_data.events[p][i].is_ad_driven = 1
                <=> raw_df[p][i].ad_campaign_id \notin {NULL, ""}

\* C6 as amended: is_ad_driven is set exactly when the ad_campaign_id column of
\* the row is not NULL; the empty string counts as present.
C6_AdDrivenIffNotNull ==
    Transformed =>
        \A p \in DOMAIN raw_df : \A i \in DOMAIN raw_df[p] :
            /\ transformed_data.events[p][i].is_ad_driven \in {0, 1}
            /\ transformed_data.events[p][i].is_ad_driven = 1
                  <=> raw_df[p][i].ad_campaign_id # NULL

C6_Witness ==
    /\ pc = "validate"
    /\ \E p \in DOMAIN raw_df : \E i \in DOMAIN raw_df[p] :
          /\ raw_df[p][i].ad_campaign_id = ""
          /\ transformed_data.events[p][i].is_ad_driven = 1

\* The rows of parts in the order perm, in files of the same lengths.
Permute(parts, perm) ==
    LET rows == Flatten(parts)
        start(p) == Len(Flatten(SubSeq(parts, 1, p - 1)))
    IN  [p \in DOMAIN parts |->
            [i \in DOMAIN parts[p] |-> rows[perm[start(p) + i]]]]

SessionCore(m) ==
    [user_id |-> m.user_id, session_id |-> m.session_id, date |-> m.date,
     total_events |-> m.total_events, purchases |-> m.purchases,
     session_revenue |-> m.session_revenue,
     unique_products_viewed |-> m.unique_products_viewed]

SessionCounts(m) ==
    [user_id |-> m.user_id, session_id |-> m.session_id, date |-> m.date,
     total_events |-> m.total_events, purchases |-> m.purchases,
     unique_products_viewed |-> m.unique_products_viewed]

C8_DeviceOfFirstEvent ==
    Transformed =>
        \A m \in transformed_data.session_metrics :
            \E i \in DOMAIN InputRows :
                /\ <<InputRows[i].user_id, InputRows[i].session_id, InputRows[i].date>>
                   = <<m.user_id, m.session_id, m.date>>
                /\ \A j \in 1..(i - 1) :
                      <<InputRows[j].user_id, InputRows[j].session_id, InputRows[j].date>>
                      # <<m.user_id, m.session_id, m.date>>
                /\ m.device_type = InputRows[i].device_type

\* Copies of row r in the DataFrame written to table t.
CopiesWritten(t, r) ==
    IF t = "events"
    THEN Cardinality({i \in DOMAIN InputRows : InputRows[i] = r})
    ELSE IF r \in transformed_data[t] THEN 1 ELSE 0

\* C9: the warehouse is append-only: a load adds to each table exactly the rows
\* of the DataFrame of that name, and no step removes or changes a row written
\* before.
C9_AppendOnly ==
    [][\A t \in TableNames :
          \A r \in BagToSet(warehouse[t]) \cup BagToSet(warehouse'[t])
                   \cup BagToSet(RowsOf(t, transformed_data)) :
              CopiesIn(r, warehouse'[t])
              = CopiesIn(r, warehouse[t]) + (IF pc = "load" THEN CopiesWritten(t, r) ELSE 0)]_vars

C9_Witness ==
    /\ pc = "done"
    /\ \E r \in BagToSet(warehouse["session_metrics"]) :
          CopiesIn(r, warehouse["session_metrics"]) = 2
    /\ \E r \in BagToSet(warehouse["product_metrics"]) :
          CopiesIn(r, warehouse["product_metrics"]) = 2

\* C10: run_etl steps in the order extract, transform, validate, load; the
\* warehouse is written only by the load, which follows a passed validation of
\* the same batch; an empty batch ends in the ValueError with nothing written.
C10_LoadOnlyAfterValidation ==
    [][/\ pc' = "transform" => pc = "extract"
       /\ pc' = "validate" => pc = "transform"
       /\ pc' \in {"load", "failed"} => pc = "validate"
       /\ pc' = "done" => pc = "load"
       /\ pc' = "load" => /\ Len(InputRows) > 0
                          /\ transformed_data.events = EnrichAll(raw_df)
                          /\ UNCHANGED <<raw_df, transformed_data>>
       /\ warehouse' # warehouse => pc = "load" /\ Len(InputRows) > 0
       /\ (pc = "validate" /\ Len(Flatten(s3)) = 0)
             => pc' = "failed" /\ warehouse' = warehouse]_vars

C10_Witness ==
    /\ pc = "failed"
    /\ Len(Flatten(s3)) = 0
    /\ \A t \in TableNames : warehouse[t] = EmptyBag

====
